---- MODULE Spec2Model ----
(***************************************************************************)
(* A model of the typed-container layer of CosmWasm/stork (later storey):  *)
(* the length-prefixed composite-key codec of Map, the prefix-scoped       *)
(* StorageBranch, the Item / Map accessors and the in-memory test backend. *)
(*                                                                         *)
(* Byte strings are sequences over 0..255.  A String key is modelled by    *)
(* its UTF-8 byte sequence; the nested key tuple (K1, (K2, ())) is         *)
(* modelled by the sequence <<K1, K2>>.                                    *)
(***************************************************************************)
EXTENDS Integers, Sequences, FiniteSets, TLC

VARIABLES
    backend,   \* TestStorage.0 : the BTreeMap from raw key to raw value
    shadow,    \* history: for each (container, key path), the value of the last typed set not followed by a remove
    last,      \* the last storage operation and what it returned
    codec      \* the codec call in progress: its inputs and its result

vars == <<backend, shadow, last, codec>>

\* Option<T>: None is the empty sequence, Some(x) the one-element sequence.
None == <<>>
Some(x) == <<x>>
IsNone(o) == Len(o) = 0
Unwrap(o) == o[1]

(***************************************************************************)
(* Bounds of the model.                                                    *)
(***************************************************************************)
MaxEntries == 2     \* the backend holds at most this many entries
MaxRawLen == 4      \* raw decode inputs enumerate every string up to this length over RawAlphabet

(***************************************************************************)
(* Byte strings.                                                           *)
(***************************************************************************)
U8Range == 256

Rep(b, n) == [i \in 1..n |-> b]

\* Rust's key[a..b] on a slice: 0-based, half open.
Slice(s, a, b) == SubSeq(s, a + 1, b)

\* key[a..b] panics unless a <= b <= key.len().
SliceInBounds(s, a, b) == a <= b /\ b <= Len(s)

IsPrefix(p, s) == Len(p) <= Len(s) /\ SubSeq(s, 1, Len(p)) = p

Min(a, b) == IF a <= b THEN a ELSE b

\* Ord for [u8]: lexicographic, a proper prefix sorts first.
LexLess(a, b) ==
    \/ \E i \in 1..Min(Len(a), Len(b)) :
          /\ a[i] < b[i]
          /\ \A j \in 1..(i - 1) : a[j] = b[j]
    \/ Len(a) < Len(b) /\ IsPrefix(a, b)

(***************************************************************************)
(* std::str::from_utf8, as used by <String as OwnedKey>::from_bytes.       *)
(***************************************************************************)
IsCont(c) == c \in 128..191

\* The length of the sequence a lead byte opens; 0 if the byte opens none.
SeqLen(c) ==
    IF c < 128 THEN 1
    ELSE IF c \in 194..223 THEN 2
    ELSE IF c \in 224..239 THEN 3
    ELSE IF c \in 240..244 THEN 4
    ELSE 0

\* The range the byte after lead byte c must lie in.
SecondRange(c) ==
    IF c = 224 THEN 160..191
    ELSE IF c = 237 THEN 128..159
    ELSE IF c = 240 THEN 144..191
    ELSE IF c = 244 THEN 128..143
    ELSE 128..191

\* The sequence opened at i is complete and well formed.
WellFormedAt(b, i) ==
    LET n == SeqLen(b[i])
    IN  /\ n >= 1
        /\ i + n - 1 <= Len(b)
        /\ n >= 2 => b[i + 1] \in SecondRange(b[i])
        /\ \A j \in (i + 2)..(i + n - 1) : IsCont(b[j])

\* Every byte opens a well-formed sequence or continues the one opened just before it.
ValidUtf8(b) ==
    \A i \in 1..Len(b) :
        IF IsCont(b[i])
        THEN \E j \in 1..(i - 1) :
                /\ i - j < SeqLen(b[j])
                /\ b[j] >= 128
                /\ WellFormedAt(b, j)
        ELSE WellFormedAt(b, i)

\* impl Key for String / str: the key's bytes are the string's UTF-8 bytes.
bytes(k) == [i \in 1..Len(k) |-> k[i]]

from_bytes_unchecked(b) == [ok |-> TRUE, val |-> b]

\* impl OwnedKey for String.
from_bytes(b) ==
    IF ValidUtf8(b) THEN [ok |-> TRUE, val |-> b] ELSE [ok |-> FALSE, val |-> <<>>]

(***************************************************************************)
(* The key codec of Map.                                                   *)
(***************************************************************************)
\* `len as u8`: the cast keeps the low eight bits.
AsU8(n) == n % U8Range

SegmentNoLength(k) == bytes(k)

\* The Vec that entry / entry_mut build for a key: push(len as u8), then the bytes.
Segment(k) == <<AsU8(Len(bytes(k)))>> \o bytes(k)

TooShortOffByOne(key, len) == Len(key) < len

\* decode_key's guard: if key.len() < len + 1 { return Err }.
TooShort(key, len) == Len(key) < len + 1

KeyErr == [ok |-> FALSE, panic |-> FALSE, key |-> <<>>]
KeyPanic == [ok |-> FALSE, panic |-> TRUE, key |-> <<>>]

\* <Item as Storable>::decode_key: consumes nothing and returns ().
ItemDecodeKey(key) == [ok |-> TRUE, panic |-> FALSE, key |-> <<>>]

\* <Map<K, V> as Storable>::decode_key; depth counts the Map levels above the Item.
RECURSIVE decode_key(_, _)
decode_key(depth, key) ==
    IF depth = 0 THEN ItemDecodeKey(key)
    ELSE IF Len(key) = 0 THEN KeyErr
    ELSE LET len == key[1]
         IN  IF TooShort(key, len) THEN KeyErr
             ELSE IF ~SliceInBounds(key, 1, len + 1) THEN KeyPanic
             ELSE LET map_key == from_bytes(Slice(key, 1, len + 1))
                  IN  IF ~map_key.ok THEN KeyErr
                      ELSE LET rest == decode_key(depth - 1, Slice(key, len + 1, Len(key)))
                           IN  IF ~rest.ok THEN rest
                               ELSE [ok |-> TRUE, panic |-> FALSE,
                                     key |-> <<map_key.val>> \o rest.key]

(***************************************************************************)
(* The value codec: a u64 as its eight little-endian bytes.                *)
(***************************************************************************)
U64Bytes == 8

\* u64::to_le_bytes: byte i is the value shifted right by 8 * i bits.
RECURSIVE ShiftRight8(_, _)
ShiftRight8(v, n) == IF n = 0 THEN v ELSE ShiftRight8(v \div U8Range, n - 1)

encode_value(v) == [i \in 1..U64Bytes |-> ShiftRight8(v, i - 1) % U8Range]

RECURSIVE LeSum(_, _)
LeSum(raw, i) == IF i > Len(raw) THEN 0 ELSE raw[i] + U8Range * LeSum(raw, i + 1)

\* u64::from_le_bytes, which takes exactly eight bytes.
decode_value(raw) ==
    IF Len(raw) # U64Bytes THEN [ok |-> FALSE, val |-> 0]
    ELSE [ok |-> TRUE, val |-> LeSum(raw, 1)]

(***************************************************************************)
(* The backend: TestStorage, a BTreeMap<Vec<u8>, Vec<u8>>.                 *)
(***************************************************************************)
EmptyMap == [k \in {} |-> <<>>]

BackendGet(b, key) == IF key \in DOMAIN b THEN Some(b[key]) ELSE None

BackendSet(b, key, value) ==
    [k \in (DOMAIN b) \cup {key} |-> IF k = key THEN value ELSE b[k]]

BackendRemove(b, key) == [k \in (DOMAIN b) \ {key} |-> b[k]]

check_bounds_exclusive_start(v, start, end) ==
    /\ ~IsNone(start) => LexLess(Unwrap(start), v)
    /\ ~IsNone(end) => LexLess(v, Unwrap(end))

\* check_bounds: false if v < start, false if v >= end, true otherwise.
check_bounds(v, start, end) ==
    /\ ~IsNone(start) => ~LexLess(v, Unwrap(start))
    /\ ~IsNone(end) => ~(v = Unwrap(end) \/ LexLess(Unwrap(end), v))

\* BTreeMap iteration order: ascending by key.
RECURSIVE Ascending(_)
Ascending(S) ==
    IF S = {} THEN <<>>
    ELSE LET m == CHOOSE x \in S : \A y \in S \ {x} : LexLess(x, y)
         IN  <<m>> \o Ascending(S \ {m})

RECURSIVE Descending(_)
Descending(S) ==
    IF S = {} THEN <<>>
    ELSE LET m == CHOOSE x \in S : \A y \in S \ {x} : LexLess(y, x)
         IN  <<m>> \o Descending(S \ {m})

BTreeKeysReversed(b) == Descending(DOMAIN b)

\* self.0.iter(): the keys of the map in its iteration order.
BTreeKeys(b) == Ascending(DOMAIN b)

\* TestStorage::pairs: the entries in map order, filtered by check_bounds.
BackendPairs(b, start, end) ==
    LET ks == SelectSeq(BTreeKeys(b), LAMBDA k : check_bounds(k, start, end))
    IN  [i \in 1..Len(ks) |-> <<ks[i], b[ks[i]]>>]

(***************************************************************************)
(* StorageBranch: a storage handle is the stack of prefixes wrapped around *)
(* the backend, outermost branch last; <<>> is the backend itself.         *)
(***************************************************************************)
Front(s) == SubSeq(s, 1, Len(s) - 1)
Last(s) == s[Len(s)]

BranchNew(storage, prefix) == Append(storage, prefix)

RECURSIVE StorageGet(_, _, _)
StorageGet(b, storage, key) ==
    IF storage = <<>> THEN BackendGet(b, key)
    ELSE StorageGet(b, Front(storage), Last(storage) \o key)

RECURSIVE StorageSet(_, _, _, _)
StorageSet(b, storage, key, value) ==
    IF storage = <<>> THEN BackendSet(b, key, value)
    ELSE StorageSet(b, Front(storage), Last(storage) \o key, value)

RECURSIVE StorageRemove(_, _, _)
StorageRemove(b, storage, key) ==
    IF storage = <<>> THEN BackendRemove(b, key)
    ELSE StorageRemove(b, Front(storage), Last(storage) \o key)

\* The least byte string greater than every string that begins with p; None if there is none.
RECURSIVE Successor(_)
Successor(p) ==
    IF p = <<>> THEN None
    ELSE IF Last(p) = U8Range - 1 THEN Successor(Front(p))
    ELSE Some(Append(Front(p), Last(p) + 1))

Strip(prefix, key) == SubSeq(key, Len(prefix) + 1, Len(key))

RECURSIVE StoragePairs(_, _, _, _)
StoragePairs(b, storage, start, end) ==
    IF storage = <<>> THEN BackendPairs(b, start, end)
    ELSE LET p == Last(storage)
             lo == IF IsNone(start) THEN Some(p) ELSE Some(p \o Unwrap(start))
             hi == IF IsNone(end) THEN Successor(p) ELSE Some(p \o Unwrap(end))
             inner == SelectSeq(StoragePairs(b, Front(storage), lo, hi),
                                LAMBDA e : IsPrefix(p, e[1]))
         IN  [i \in 1..Len(inner) |-> <<Strip(p, inner[i][1]), inner[i][2]>>]

(***************************************************************************)
(* Containers and accessors.  A container descriptor is its root prefix    *)
(* and its depth: 0 is Item<u64>, n + 1 is Map<String, depth n>.           *)
(***************************************************************************)
access_no_prefix(c) == BranchNew(<<>>, <<>>)

\* Map::access / Item::access: bind the descriptor's prefix to the backend.
access(c) == BranchNew(<<>>, c.prefix)

\* MapAccess::entry / entry_mut: a branch of the accessor's storage under the key's segment.
entry(storage, key) == BranchNew(storage, Segment(key))

RECURSIVE EntryPath(_, _)
EntryPath(storage, path) ==
    IF path = <<>> THEN storage
    ELSE EntryPath(entry(storage, Head(path)), Tail(path))

\* ItemAccess::get / set / remove on the accessor's storage.
ItemGet(b, storage) ==
    LET raw == StorageGet(b, storage, <<>>)
        dec == decode_value(Unwrap(raw))
    IN  IF IsNone(raw) THEN [ok |-> TRUE, val |-> None]
        ELSE IF dec.ok THEN [ok |-> TRUE, val |-> Some(dec.val)]
        ELSE [ok |-> FALSE, val |-> None]

ItemSet(b, storage, v) == StorageSet(b, storage, <<>>, encode_value(v))

ItemRemove(b, storage) == StorageRemove(b, storage, <<>>)

(***************************************************************************)
(* Typed iteration: the raw pairs of the accessor's storage, each decoded  *)
(* by the container's decode_key / decode_value; the first failure is      *)
(* yielded as an error and ends the sequence.                              *)
(***************************************************************************)
DecodePair(depth, e) ==
    LET k == decode_key(depth, e[1])
        v == decode_value(e[2])
    IN  IF ~k.ok THEN [ok |-> FALSE, err |-> "key"]
        ELSE IF ~v.ok THEN [ok |-> FALSE, err |-> "value"]
        ELSE [ok |-> TRUE, key |-> k.key, val |-> v.val]

DecodeKeyOnly(depth, e) ==
    LET k == decode_key(depth, e[1])
    IN  IF ~k.ok THEN [ok |-> FALSE, err |-> "key"] ELSE [ok |-> TRUE, key |-> k.key]

DecodeValueOnly(depth, e) ==
    LET v == decode_value(e[2])
    IN  IF ~v.ok THEN [ok |-> FALSE, err |-> "value"] ELSE [ok |-> TRUE, val |-> v.val]

Decoded(kind, depth, e) ==
    IF kind = "pairs" THEN DecodePair(depth, e)
    ELSE IF kind = "keys" THEN DecodeKeyOnly(depth, e)
    ELSE DecodeValueOnly(depth, e)

RECURSIVE StorableIter(_, _, _)
StorableIter(kind, depth, raw) ==
    IF raw = <<>> THEN <<>>
    ELSE LET item == Decoded(kind, depth, Head(raw))
         IN  IF ~item.ok THEN <<item>>
             ELSE <<item>> \o StorableIter(kind, depth, Tail(raw))

(***************************************************************************)
(* Inputs.                                                                 *)
(***************************************************************************)
KEmpty == <<>>                          \* ""
KA == <<97>>                            \* "a"
KB == <<98>>                            \* "b"
KE == <<195, 169>>                      \* "e" with an acute accent, two bytes
K255 == Rep(97, 255)                    \* 255 bytes
K256 == Rep(97, 256)                    \* 256 bytes
KX == <<0>> \o Rep(97, 255)             \* 256 bytes, the first one NUL
KY == Rep(97, 255) \o <<0>>             \* 256 bytes, the last one NUL

ITEM0 == [prefix |-> <<0, 255>>, depth |-> 0]
ITEM1 == [prefix |-> <<1>>, depth |-> 0]
MAP == [prefix |-> <<0, 255>>, depth |-> 1]
NESTED == [prefix |-> <<255>>, depth |-> 2]
ROOTMAP == [prefix |-> <<>>, depth |-> 1]

Containers == {ITEM0, ITEM1, MAP, NESTED, ROOTMAP}

NestedPaths == {<<KA, KA>>, <<KA, KB>>, <<KB, KA>>}

\* Key paths with a key longer than 255 bytes.
LongPaths == {<<KX, KEmpty>>, <<KEmpty, KY>>}

PathsOf(c) ==
    IF c.depth = 0 THEN {<<>>}
    ELSE IF c = MAP THEN {<<KB>>, <<K255>>}
    ELSE IF c = NESTED THEN NestedPaths
    ELSE {}

\* The accessors that are iterated: a container and the keys entered so far.
IterBranches ==
    {<<MAP, <<>>>>, <<ROOTMAP, <<>>>>, <<NESTED, <<>>>>, <<NESTED, <<KA>>>>, <<NESTED, <<KB>>>>}

Values == {1337, 42}

\* Entries put into the backend behind the containers' backs.
RawEntries ==
    { <<<<0, 255, 1, 169>>, encode_value(7)>>,  \* under MAP: the key is not UTF-8
      <<<<255, 1, 97, 5>>, encode_value(7)>>,        \* under NESTED "a": declared length 5, no bytes
      <<<<255, 1, 98, 1, 98>>, <<7>>>> }             \* under NESTED ("b", "b"): a one-byte value

IterBounds == {<<None, None>>, <<Some(<<1, 97>>), Some(<<1, 98>>)>>}

Idle == [op |-> "idle", c |-> ITEM0, path |-> <<>>, val |-> 0,
         start |-> None, end |-> None, res |-> <<>>]

NoCall == [pc |-> "idle"]

(***************************************************************************)
(* The storage operations.                                                 *)
(***************************************************************************)
Put(f, x, y) == [z \in (DOMAIN f) \cup {x} |-> IF z = x THEN y ELSE f[z]]
Drop(f, x) == [z \in (DOMAIN f) \ {x} |-> f[z]]

Init ==
    /\ backend = EmptyMap
    /\ shadow = EmptyMap
    /\ last = Idle
    /\ codec = NoCall

\* container.access(&mut storage).entry_mut(k1)...entry_mut(kn).set(&v)
Set(c, path, v) ==
    /\ LET nb == ItemSet(backend, EntryPath(access(c), path), v)
       IN  /\ Cardinality(DOMAIN nb) <= MaxEntries
           /\ backend' = nb
    /\ shadow' = Put(shadow, <<c, path>>, v)
    /\ last' = [Idle EXCEPT !.op = "set", !.c = c, !.path = path, !.val = v]
    /\ UNCHANGED codec

\* container.access(&mut storage).entry_mut(k1)...entry_mut(kn).remove()
Remove(c, path) ==
    /\ backend' = ItemRemove(backend, EntryPath(access(c), path))
    /\ shadow' = Drop(shadow, <<c, path>>)
    /\ last' = [Idle EXCEPT !.op = "remove", !.c = c, !.path = path]
    /\ UNCHANGED codec

\* container.access(&storage).entry(k1)...entry(kn).get()
Get(c, path) ==
    /\ last' = [Idle EXCEPT !.op = "get", !.c = c, !.path = path,
                            !.res = ItemGet(backend, EntryPath(access(c), path))]
    /\ UNCHANGED <<backend, shadow, codec>>

\* container.access(&storage).entry(k1)...entry(kj).pairs / keys / values(start, end), collected
Iterate(kind, c, path, start, end) ==
    /\ LET raw == StoragePairs(backend, EntryPath(access(c), path), start, end)
       IN  last' = [Idle EXCEPT !.op = kind, !.c = c, !.path = path,
                                !.start = start, !.end = end,
                                !.res = [raw |-> raw,
                                         items |-> StorableIter(kind, c.depth - Len(path), raw)]]
    /\ UNCHANGED <<backend, shadow, codec>>

Pairs(c, path, start, end) == Iterate("pairs", c, path, start, end)
Keys(c, path, start, end) == Iterate("keys", c, path, start, end)
ValuesOf(c, path, start, end) == Iterate("values", c, path, start, end)

\* storage.set(key, value) on the backend itself
RawSet(key, value) ==
    /\ LET nb == BackendSet(backend, key, value)
       IN  /\ Cardinality(DOMAIN nb) <= MaxEntries
           /\ backend' = nb
    /\ last' = [Idle EXCEPT !.op = "rawset", !.path = <<key>>]
    /\ UNCHANGED <<shadow, codec>>

Next ==
    \/ \E c \in Containers : \E path \in PathsOf(c) : \E v \in Values : Set(c, path, v)
    \/ \E c \in Containers : \E path \in PathsOf(c) : Remove(c, path)
    \/ \E c \in Containers : \E path \in PathsOf(c) : Get(c, path)
    \/ \E br \in IterBranches : \E bd \in IterBounds : Pairs(br[1], br[2], bd[1], bd[2])
    \/ \E br \in IterBranches : \E bd \in IterBounds : Keys(br[1], br[2], bd[1], bd[2])
    \/ \E br \in IterBranches : \E bd \in IterBounds : ValuesOf(br[1], br[2], bd[1], bd[2])
    \/ \E e \in RawEntries : RawSet(e[1], e[2])

Spec == Init /\ [][Next]_vars

\* The operations made through one root Map, Map<String, Map<String, Item<u64>>>.
NextMap ==
    \/ \E path \in NestedPaths \cup LongPaths : \E v \in Values : Set(NESTED, path, v)
    \/ \E path \in NestedPaths \cup LongPaths : Remove(NESTED, path)
    \/ \E path \in NestedPaths \cup LongPaths : Get(NESTED, path)

SpecMap == Init /\ [][NextMap]_vars

(***************************************************************************)
(* The codec calls.                                                        *)
(***************************************************************************)
CodecKeys == {KEmpty, KA, KB, KE, K255, K256, KX}

RawAlphabet == {0, 1, 2, 97, 169, 195}

RECURSIVE StringsUpTo(_)
StringsUpTo(n) ==
    IF n = 0 THEN {<<>>}
    ELSE LET shorter == StringsUpTo(n - 1)
         IN  shorter \cup {Append(s, b) : s \in {t \in shorter : Len(t) = n - 1}, b \in RawAlphabet}

RawInputs ==
    StringsUpTo(MaxRawLen)
        \cup {Segment(K255), Front(Segment(K255)), <<255>> \o Rep(97, 254),
              Segment(KA) \o Segment(K255), Segment(KA) \o Front(Segment(K255))}

\* entry(k1) and entry(k2) on one accessor: the segments built for two sibling keys
EncodeSiblings(k1, k2) ==
    /\ codec.pc = "idle"
    /\ codec' = [pc |-> "encoded", k1 |-> k1, k2 |-> k2,
                 ok1 |-> TRUE, ok2 |-> TRUE,
                 s1 |-> Last(entry(<<>>, k1)), s2 |-> Last(entry(<<>>, k2))]
    /\ UNCHANGED <<backend, shadow, last>>

\* decode_key of the segment built for k, followed by rest
DecodeEncoded(depth, k, rest) ==
    /\ codec.pc = "idle"
    /\ codec' = [pc |-> "roundtrip", depth |-> depth, k |-> k, rest |-> rest,
                 res |-> decode_key(depth, Last(entry(<<>>, k)) \o rest)]
    /\ UNCHANGED <<backend, shadow, last>>

\* decode_key of an arbitrary raw key
DecodeRaw(depth, raw) ==
    /\ codec.pc = "idle"
    /\ codec' = [pc |-> "decoded", depth |-> depth, raw |-> raw,
                 res |-> decode_key(depth, raw)]
    /\ UNCHANGED <<backend, shadow, last>>

RestInputs == {<<>>, <<7>>, Segment(KA), Segment(KA) \o <<7>>, Segment(K255), <<2, 97>>, <<1, 169>>}

NextCodec ==
    \/ \E k1 \in CodecKeys : \E k2 \in CodecKeys : EncodeSiblings(k1, k2)
    \/ \E d \in 1..2 : \E k \in CodecKeys : \E rest \in RestInputs : DecodeEncoded(d, k, rest)
    \/ \E d \in 1..2 : \E raw \in RawInputs : DecodeRaw(d, raw)

SpecCodec == Init /\ [][NextCodec]_vars

(***************************************************************************)
(* The persisted layout, as the format states it: the root prefix, then    *)
(* for each key of the path one length byte and the key's bytes.           *)
(***************************************************************************)
RECURSIVE FlatKey(_, _)
FlatKey(P, path) ==
    IF path = <<>> THEN P
    ELSE FlatKey(P \o <<Len(Head(path))>> \o Head(path), Tail(path))

MaxSegment == U8Range - 1

IsIter(op) == op \in {"pairs", "keys", "values"}

Range(f) == {f[x] : x \in DOMAIN f}

\* C1: a set through entry_mut(k1)...entry_mut(kn), n >= 1 and every ki at most 255
\* bytes, writes the one backend entry at P ++ [len(k1)] ++ k1 ++ ... ++ [len(kn)] ++ kn
\* and creates or changes no other backend key.
C1_SetWritesFlatKey ==
    [][ (/\ last'.op = "set"
         /\ Len(last'.path) >= 1
         /\ \A i \in 1..Len(last'.path) : Len(last'.path[i]) <= MaxSegment)
        => LET pk == FlatKey(last'.c.prefix, last'.path)
           IN  /\ DOMAIN backend' = (DOMAIN backend) \cup {pk}
               /\ backend'[pk] = encode_value(last'.val)
               /\ \A k \in (DOMAIN backend) \ {pk} : backend'[k] = backend[k] ]_vars

C1_Witness ==
    /\ last.op = "set"
    /\ last.c = NESTED
    /\ last.path = <<KA, KB>>
    /\ <<255, 1, 97, 1, 98>> \in DOMAIN backend
    /\ Cardinality(DOMAIN backend) = 2

\* C2: a set through a key path holding a key of 256 bytes or more fails before any
\* backend write, so no backend entry exists under such a path.
C2_LongKeyNeverWritten ==
    \A p \in LongPaths : IsNone(StorageGet(backend, EntryPath(access(NESTED), p), <<>>))

\* C3: decode_key of the segment built for k followed by rest returns k and the inner
\* container's decoding of rest, whenever the inner container decodes rest.
C3_RoundTrip ==
    codec.pc = "roundtrip" =>
        LET inner == decode_key(codec.depth - 1, codec.rest)
        IN  inner.ok =>
                codec.res = [ok |-> TRUE, panic |-> FALSE, key |-> <<codec.k>> \o inner.key]

\* C4: the segments built for two distinct sibling keys differ and neither is a
\* byte-prefix of the other.
C4_PrefixFree ==
    (codec.pc = "encoded" /\ codec.k1 # codec.k2) =>
        /\ codec.s1 # codec.s2
        /\ ~IsPrefix(codec.s1, codec.s2)
        /\ ~IsPrefix(codec.s2, codec.s1)

\* The branches read and the keys read through them when a write is observed.
ProbeKeys == {<<>>, <<1, 97>>, <<1, 98>>, <<1, 97, 1, 98>>}

ReadBranches ==
    {<<c, <<>>>> : c \in Containers} \cup {<<NESTED, <<KA>>>>, <<NESTED, <<KB>>>>}

IterationWithinPrefix ==
    IsIter(last.op) =>
        LET P == FlatKey(last.c.prefix, last.path)
        IN  \A e \in Range(last.res.raw) :
                /\ (P \o e[1]) \in DOMAIN backend
                /\ backend[P \o e[1]] = e[2]

\* C5: a set or remove through one branch leaves every get through a branch whose
\* prefix is not a prefix of the written key as it was, and iteration through a
\* branch yields only keys that the backend holds under that branch's prefix.
C5_BranchIsolation ==
    [][ /\ last'.op \in {"set", "remove"} =>
            LET written == FlatKey(last'.c.prefix, last'.path)
            IN  \A br \in ReadBranches : \A key \in ProbeKeys :
                    ~IsPrefix(FlatKey(br[1].prefix, br[2]), written) =>
                        StorageGet(backend', EntryPath(access(br[1]), br[2]), key)
                            = StorageGet(backend, EntryPath(access(br[1]), br[2]), key)
        /\ IterationWithinPrefix' ]_vars

C5_Witness ==
    /\ last.op = "set"
    /\ last.c = ITEM0
    /\ ~IsNone(ItemGet(backend, access(ITEM0)).val)
    /\ IsNone(ItemGet(backend, access(ITEM1)).val)
    /\ Cardinality(DOMAIN backend) = 2

\* What makes a raw key undecodable, stated on the bytes.
Fails1(x) ==
    \/ Len(x) = 0
    \/ Len(x) < x[1] + 1
    \/ ~ValidUtf8(SubSeq(x, 2, x[1] + 1))

RestOf(x) == SubSeq(x, x[1] + 2, Len(x))

RECURSIVE KeyFails(_, _)
KeyFails(depth, x) == depth > 0 /\ (Fails1(x) \/ KeyFails(depth - 1, RestOf(x)))

RECURSIVE KeyOf(_, _)
KeyOf(depth, x) ==
    IF depth = 0 THEN <<>>
    ELSE <<SubSeq(x, 2, x[1] + 1)>> \o KeyOf(depth - 1, RestOf(x))

EntryFails(kind, depth, e) ==
    \/ kind # "values" /\ KeyFails(depth, e[1])
    \/ kind # "keys" /\ Len(e[2]) # U64Bytes

RECURSIVE TupleLess(_, _)
TupleLess(a, b) ==
    /\ a # <<>>
    /\ \/ LexLess(Head(a), Head(b))
       \/ Head(a) = Head(b) /\ TupleLess(Tail(a), Tail(b))

SameLengths(ks) ==
    \A x \in ks : \A y \in ks : \A i \in 1..Len(x) : Len(x[i]) = Len(y[i])

\* C7: when the entries under a Map accessor are entries of that Map (each raw key
\* is the encoding of its key path) and their keys have the same byte length at each
\* level, pairs / keys / values(None, None) yields them in ascending key order.
C7_AscendingOrder ==
    (IsIter(last.op) /\ IsNone(last.start) /\ IsNone(last.end)) =>
        LET P == FlatKey(last.c.prefix, last.path)
            depth == last.c.depth - Len(last.path)
            under == {k \in DOMAIN backend : IsPrefix(P, k)}
            typed == [k \in under |-> decode_key(depth, Strip(P, k))]
            items == last.res.items
        IN  (/\ \A k \in under : /\ typed[k].ok
                               /\ Strip(P, k) = FlatKey(<<>>, typed[k].key)
                               /\ decode_value(backend[k]).ok
             /\ SameLengths({typed[k].key : k \in under}))
            => \E order \in [1..Cardinality(under) -> under] :
                  /\ \A i \in DOMAIN order : \A j \in DOMAIN order :
                        i < j => TupleLess(typed[order[i]].key, typed[order[j]].key)
                  /\ Len(items) = Cardinality(under)
                  /\ \A i \in DOMAIN order :
                        /\ items[i].ok
                        /\ last.op # "values" => items[i].key = typed[order[i]].key
                        /\ last.op # "keys" =>
                              items[i].val = decode_value(backend[order[i]]).val

C7_Witness ==
    /\ last.op = "pairs"
    /\ last.c = NESTED
    /\ last.path = <<>>
    /\ IsNone(last.start) /\ IsNone(last.end)
    /\ Len(last.res.items) = 2
    /\ last.res.items[1] = [ok |-> TRUE, key |-> <<KA, KB>>, val |-> 1337]
    /\ last.res.items[2] = [ok |-> TRUE, key |-> <<KB, KA>>, val |-> 42]

\* C8: typed iteration yields the entries before the first one whose key or value
\* fails to decode, then one error, and nothing after it.
C8_HaltsAtFirstFailure ==
    IsIter(last.op) =>
        LET depth == last.c.depth - Len(last.path)
            raw == last.res.raw
            items == last.res.items
            bad == {i \in 1..Len(raw) : EntryFails(last.op, depth, raw[i])}
        IN  IF bad = {}
            THEN Len(items) = Len(raw) /\ \A i \in 1..Len(items) : items[i].ok
            ELSE LET first == CHOOSE i \in bad : \A j \in bad : i <= j
                 IN  /\ Len(items) = first
                     /\ ~items[first].ok
                     /\ \A i \in 1..(first - 1) : items[i].ok

C8_Witness ==
    /\ last.op = "pairs"
    /\ last.c = MAP
    /\ Len(last.res.raw) = 2
    /\ last.res.raw[2][1] = Segment(KB)
    /\ Len(last.res.items) = 1
    /\ last.res.items[1] = [ok |-> FALSE, err |-> "key"]

\* C9: decode_key never reads past the end of its input, returns an error exactly
\* when the input is empty, is shorter than its length byte says, holds a key that
\* is not valid UTF-8, or the inner container fails on the rest, and otherwise
\* returns the local key and the inner container's key.
C9_DecodeKeyTotal ==
    codec.pc = "decoded" =>
        /\ ~codec.res.panic
        /\ codec.res.ok = ~KeyFails(codec.depth, codec.raw)
        /\ codec.res.ok => codec.res.key = KeyOf(codec.depth, codec.raw)

C9_Witness ==
    /\ codec.pc = "decoded"
    /\ codec.depth = 2
    /\ codec.raw = <<1, 97, 2, 97>>
    /\ ~codec.res.ok

\* C10: get on a key path of the root Map returns the value of the last set on that
\* path not followed by a remove of it, and None otherwise.
C10_Dictionary ==
    \A p \in NestedPaths \cup LongPaths :
        ItemGet(backend, EntryPath(access(NESTED), p))
            = [ok |-> TRUE,
               val |-> IF <<NESTED, p>> \in DOMAIN shadow THEN Some(shadow[<<NESTED, p>>])
                       ELSE None]
====
